---- MODULE Spec2Model ----
(***************************************************************************)
(* Model of saleae-importer (src/src/lib.rs): the binrw-derived codec of   *)
(* SaleaeExport (read / read_from_bytes / write_to), the variant           *)
(* projections assume_digital / assume_analog and the SampleIter iterator. *)
(*                                                                         *)
(* Representation.  A byte is a number in 0..255.  A fixed-width value in  *)
(* memory (i32, u32, u64, the bit pattern of an f64) is a "word": the      *)
(* sequence of its octets, most significant first.  The little-endian wire *)
(* form of a word is the reversed sequence (read_le / write_le).           *)
(* An f64 is kept as its IEEE-754 bit pattern; the values used for         *)
(* arithmetic are the multiples of 0.5 from -MaxHalf/2 to MaxHalf/2, all   *)
(* of which are exact, so their differences are exact too.                 *)
(*                                                                         *)
(* The readers and writers are the ones binrw derives from the attributes  *)
(* in lib.rs.  What the model takes from binrw:                            *)
(*   - fields are read and written in declaration order, little-endian;    *)
(*   - a magic is read as a value of its type and compared (BadMagic);     *)
(*   - assert(...) on a field is checked right after the field is read     *)
(*     (AssertFail);                                                       *)
(*   - a derived reader that fails seeks back to where its value began;    *)
(*   - the reader of a data enum tries the variants in declaration order,  *)
(*     each from the same position, seeking back after a failed variant,   *)
(*     and when all fail returns EnumErrors with each variant's error;     *)
(*   - the error of a field is wrapped with a context frame (Backtrace);   *)
(*   - a read past the end of the source is Error::Io(UnexpectedEof).      *)
(***************************************************************************)
EXTENDS Integers, Sequences, FiniteSets

(* ------------------------------ bounds -------------------------------- *)

\* Longest transition_times / samples sequence of a constructed export.
MaxLen == 2

\* Timestamps and samples of constructed exports are n * 0.5, n in 0..MaxHalf.
MaxHalf == 2

(* ------------------------------ words --------------------------------- *)

Reverse(s) == [i \in 1..Len(s) |-> s[Len(s) + 1 - i]]

Zeros(w) == [i \in 1..w |-> 0]

\* The w-octet word of a number 0 <= n < 2^16.
NatWord(n, w) ==
    [i \in 1..w |-> IF i = w THEN n % 256
                    ELSE IF i = w - 1 THEN (n \div 256) % 256
                    ELSE 0]

\* A word whose value is below 2^16 (all but its two low octets are zero).
IsSmall(word) == \A i \in 1..(Len(word) - 2) : word[i] = 0

\* The value of a small word.
SmallNat(word) == word[Len(word) - 1] * 256 + word[Len(word)]

(* --------------------------- f64 bit patterns -------------------------- *)

Abs(n) == IF n < 0 THEN -n ELSE n

\* floor(log2 m) for 1 <= m < 32
Log2(m) == IF m >= 16 THEN 4 ELSE IF m >= 8 THEN 3 ELSE IF m >= 4 THEN 2
           ELSE IF m >= 2 THEN 1 ELSE 0

Pow2(e) == IF e = 0 THEN 1 ELSE IF e = 1 THEN 2 ELSE IF e = 2 THEN 4
           ELSE IF e = 3 THEN 8 ELSE 16

\* The IEEE-754 binary64 bit pattern of n * 0.5, for -32 < n < 32:
\* sign bit, 11-bit biased exponent, 52-bit fraction (only its top four
\* bits can be set for these values).
F64Of(n) ==
    IF n = 0 THEN Zeros(8)
    ELSE LET m    == Abs(n)
             e    == Log2(m)
             bexp == 1022 + e
             frac == (m - Pow2(e)) * Pow2(4 - e)
         IN  << (IF n < 0 THEN 128 ELSE 0) + (bexp \div 16),
                (bexp % 16) * 16 + frac, 0, 0, 0, 0, 0, 0 >>

HalfRange == (0 - MaxHalf) .. MaxHalf

\* The number n with word = bits of n * 0.5.
F64Half(word) == CHOOSE n \in HalfRange : F64Of(n) = word

\* f64 subtraction a - b on the modelled values (exact).
F64Sub(a, b) == F64Of(F64Half(a) - F64Half(b))

(* ------------------------------ binding ------------------------------ *)

\* F applied to the value of v, with v evaluated once (let x = v in F(x)).
Bind(v, F(_)) == CHOOSE y \in {F(x) : x \in {v}} : TRUE

(* ------------------------------ the sink ------------------------------ *)

\* A writable, seekable byte sink: its contents, its cursor, and the
\* write calls made on it, each <<"write", from, to>>.
EmptySink == [bytes |-> <<>>, pos |-> 0, trace |-> <<>>]

\* io::Write::write_all of chunk at the cursor.
Put(s, chunk) ==
    Bind(s, LAMBDA sink :
      LET end == sink.pos + Len(chunk)
          size == IF end > Len(sink.bytes) THEN end ELSE Len(sink.bytes)
      IN  [bytes |-> [i \in 1..size |->
                        IF i > sink.pos /\ i <= end THEN chunk[i - sink.pos]
                        ELSE sink.bytes[i]],
           pos   |-> end,
           trace |-> Append(sink.trace, <<"write", sink.pos, end>>)])

\* BinWriterExt::write_le of a fixed-width value: least significant octet first.
WriteLE(sink, word) == Put(sink, Reverse(word))

(* ------------------------------ encode -------------------------------- *)

\* #[brw(magic = b"<SALEAE>")]
Magic == <<60, 83, 65, 76, 69, 65, 69, 62>>

\* Slip: the variants numbered from 1.
VariantTagFromOne(variant) == NatWord(IF variant = "Digital" THEN 1 ELSE 2, 4)

\* #[brw(magic = 0u32)] Digital, #[brw(magic = 1u32)] Analog
VariantTag(variant) == NatWord(IF variant = "Digital" THEN 0 ELSE 1, 4)

\* #[binwrite] enum State: #[bw(magic = 0u32)] Low, #[bw(magic = 1u32)] High
StateTag(state) == NatWord(IF state = "Low" THEN 0 ELSE 1, 4)

WriteState(sink, state) == WriteLE(sink, StateTag(state))

\* Vec<f64>: the elements in order, no length.
RECURSIVE WriteVec(_, _)
WriteVec(sink, seq) ==
    IF seq = <<>> THEN sink
    ELSE WriteVec(WriteLE(sink, Head(seq)), Tail(seq))

\* Slip: a count one more than the length.
CountOfPlusOne(seq) == NatWord(Len(seq) + 1, 8)

\* #[bw(calc = transition_times.len() as u64)], #[bw(calc = samples.len() as u64)]
CountOf(seq) == NatWord(Len(seq), 8)

\* Slip: end_time written before begin_time.
WriteDigitalDataSwapped(sink, d) ==
    WriteVec(
      WriteLE(
        WriteLE(
          WriteLE(
            WriteLE(sink, NatWord(IF d.initial_state = "Low" THEN 0 ELSE 1, 4)),
            d.end_time),
          d.begin_time),
        NatWord(Len(d.transition_times), 8)),
      d.transition_times)

\* struct DigitalData, fields in declaration order.
WriteDigitalData(sink, d) ==
    WriteVec(
      WriteLE(
        WriteLE(
          WriteLE(
            WriteState(sink, d.initial_state),
            d.begin_time),
          d.end_time),
        CountOf(d.transition_times)),
      d.transition_times)

\* Slip: downsample written before sample_rate.
WriteAnalogDataSwapped(sink, a) ==
    WriteVec(
      WriteLE(
        WriteLE(
          WriteLE(
            WriteLE(sink, a.begin_time),
            a.downsample),
          a.sample_rate),
        NatWord(Len(a.samples), 8)),
      a.samples)

\* struct AnalogData, fields in declaration order.
WriteAnalogData(sink, a) ==
    WriteVec(
      WriteLE(
        WriteLE(
          WriteLE(
            WriteLE(sink, a.begin_time),
            a.sample_rate),
          a.downsample),
        CountOf(a.samples)),
      a.samples)

\* enum Data: the variant's magic, then its payload.
WriteData(sink, data) ==
    IF data.variant = "Digital"
      THEN WriteDigitalData(WriteLE(sink, VariantTag("Digital")), data.payload)
      ELSE WriteAnalogData(WriteLE(sink, VariantTag("Analog")), data.payload)

\* struct SaleaeExport: magic, version, file_data.  No assertion on write.
WriteSaleaeExport(sink, export) ==
    WriteData(WriteLE(Put(sink, Magic), export.version), export.file_data)

(* ----------------------------- the source ----------------------------- *)

\* A readable, seekable byte source: [bytes, failAt].  failAt = <<>> for a
\* source that never fails (a Cursor over a slice); failAt = <<k>> for a
\* source whose device fails every read that reaches past offset k.

\* io::Read::read_exact of n bytes at offset pos.
ReadExact(src, pos, n) ==
    IF src.failAt # <<>> /\ pos + n > src.failAt[1]
      THEN [ok |-> FALSE, io |-> "Fault", bytes |-> <<>>]
    ELSE IF pos + n > Len(src.bytes)
      THEN [ok |-> FALSE, io |-> "UnexpectedEof", bytes |-> <<>>]
    ELSE [ok |-> TRUE, io |-> "", bytes |-> SubSeq(src.bytes, pos + 1, pos + n)]

(* ---------------------------- binrw errors ---------------------------- *)

\* binrw::Error.  kind is the variant (Io, BadMagic, AssertFail,
\* EnumErrors); frames are the context frames the derived readers attach
\* to a field's error (a non-empty frames is Error::Backtrace around it).
BinError(kind, pos, found, io, variants) ==
    [kind |-> kind, pos |-> pos, found |-> found, io |-> io,
     variants |-> variants, frames |-> <<>>]

IoError(io, pos) == BinError("Io", pos, <<>>, io, <<>>)

BadMagic(pos, found) == BinError("BadMagic", pos, found, "", <<>>)

AssertFail(pos) == BinError("AssertFail", pos, <<>>, "", <<>>)

EnumErrors(pos, variants) == BinError("EnumErrors", pos, <<>>, "", variants)

\* ContextExt::with_context
WithContext(err, frame) == [err EXCEPT !.frames = Append(@, frame)]

\* Slip: an EnumErrors holding an I/O error taken for an I/O error.
IsIoDeep(err) ==
    \/ err.kind = "Io"
    \/ \E k \in 1..Len(err.variants) : err.variants[k].error.kind = "Io"

\* Is err the variant binrw::Error::Io itself (not wrapped in a backtrace)?
IsIo(err) == err.kind = "Io" /\ err.frames = <<>>

(* --------------------------- reader results --------------------------- *)

\* A reader's result: the value or the error, the cursor it leaves, and
\* the cursor movements it made: <<"read", from, to>>, <<"seek", from, to>>.
Ok(val, pos, trace) ==
    [ok |-> TRUE, val |-> <<val>>, err |-> <<>>, pos |-> pos, trace |-> trace]

Fail(err, pos, trace) ==
    [ok |-> FALSE, val |-> <<>>, err |-> <<err>>, pos |-> pos, trace |-> trace]

\* r, a result, after the cursor movements in `before`.
After(before, r) == [r EXCEPT !.trace = before \o @]

\* A field's result r after the reads in `before`: on error the derived
\* reader attaches the field's context frame.
Field(r, name, before) ==
    IF r.ok THEN After(before, r)
    ELSE Fail(WithContext(r.err[1], name), r.pos, before \o r.trace)

\* The derived readers' epilogue: on error, seek back to where the value began.
Restore(res, start) ==
    Bind(res, LAMBDA r :
      IF r.ok THEN r
      ELSE [r EXCEPT !.pos = start,
                     !.trace = Append(@, <<"seek", r.pos, start>>)])

(* ------------------------------- decode ------------------------------- *)

\* read_le of an n-byte integer or float: the word, octets reversed.
\* A failed read leaves the cursor where it was.
ReadLE(src, pos, n) ==
    Bind(ReadExact(src, pos, n), LAMBDA x :
      IF x.ok THEN Ok(Reverse(x.bytes), pos + n, << <<"read", pos, pos + n>> >>)
      ELSE Fail(IoError(x.io, pos), pos, <<>>))

\* n elements of w bytes one after another (Vec<T> with a count, [T; N]);
\* stops at the first that fails, leaving the cursor after the last read.
RECURSIVE ReadElems(_, _, _, _)
ReadElems(src, pos, w, n) ==
    IF n = 0 THEN Ok(<<>>, pos, <<>>)
    ELSE Bind(ReadLE(src, pos, w), LAMBDA x :
           IF ~x.ok THEN x
           ELSE Bind(ReadElems(src, x.pos, w, n - 1), LAMBDA rest :
                  IF ~rest.ok THEN After(x.trace, rest)
                  ELSE Ok(x.val \o rest.val[1], rest.pos, x.trace \o rest.trace)))

\* The concatenation of the one-octet words of a [u8; N].
RECURSIVE Flatten(_)
Flatten(words) == IF words = <<>> THEN <<>> ELSE Head(words) \o Flatten(Tail(words))

\* magic = b"...": read a [u8; N] and compare.
ReadMagicBytes(src, pos, expected) ==
    Bind(ReadElems(src, pos, 1, Len(expected)), LAMBDA x :
      IF ~x.ok THEN x
      ELSE IF Flatten(x.val[1]) # expected
        THEN Fail(BadMagic(pos, Flatten(x.val[1])), x.pos, x.trace)
      ELSE x)

\* magic = Nu32: read a u32 and compare.
ReadMagicU32(src, pos, expected) ==
    Bind(ReadLE(src, pos, 4), LAMBDA x :
      IF ~x.ok THEN x
      ELSE IF x.val[1] # expected THEN Fail(BadMagic(pos, x.val[1]), x.pos, x.trace)
      ELSE x)

\* Slip: only 1 read as High.
StateOfOne(word) == IF word = NatWord(1, 4) THEN "High" ELSE "Low"

\* impl BinRead for State: |x: u32| if x == 0 { Low } else { High }
StateOf(word) == IF word = Zeros(4) THEN "Low" ELSE "High"

ReadState(src, pos) ==
    Bind(ReadLE(src, pos, 4), LAMBDA x :
      IF ~x.ok THEN x ELSE Ok(StateOf(x.val[1]), x.pos, x.trace))

\* #[br(count = n)] Vec<f64>.  A count of 2^16 or more is more than any
\* modelled source holds: the loop runs until the element that cannot be read.
ReadVec(src, pos, count) ==
    ReadElems(src, pos, 8,
              IF IsSmall(count) THEN SmallNat(count)
              ELSE (Len(src.bytes) \div 8) + 1)

\* #[binrw] struct DigitalData
ReadDigitalData(src, pos) ==
    Restore(
      Bind(Field(ReadState(src, pos), "initial_state", <<>>), LAMBDA s :
        IF ~s.ok THEN s ELSE
      Bind(Field(ReadLE(src, s.pos, 8), "begin_time", s.trace), LAMBDA b :
        IF ~b.ok THEN b ELSE
      Bind(Field(ReadLE(src, b.pos, 8), "end_time", b.trace), LAMBDA e :
        IF ~e.ok THEN e ELSE
      Bind(Field(ReadLE(src, e.pos, 8), "num_transitions", e.trace), LAMBDA n :
        IF ~n.ok THEN n ELSE
      Bind(Field(ReadVec(src, n.pos, n.val[1]), "transition_times", n.trace), LAMBDA t :
        IF ~t.ok THEN t ELSE
        Ok([initial_state    |-> s.val[1],
            begin_time       |-> b.val[1],
            end_time         |-> e.val[1],
            transition_times |-> t.val[1]],
           t.pos, t.trace)))))),
      pos)

\* #[binrw] struct AnalogData
ReadAnalogData(src, pos) ==
    Restore(
      Bind(Field(ReadLE(src, pos, 8), "begin_time", <<>>), LAMBDA b :
        IF ~b.ok THEN b ELSE
      Bind(Field(ReadLE(src, b.pos, 8), "sample_rate", b.trace), LAMBDA r :
        IF ~r.ok THEN r ELSE
      Bind(Field(ReadLE(src, r.pos, 8), "downsample", r.trace), LAMBDA d :
        IF ~d.ok THEN d ELSE
      Bind(Field(ReadLE(src, d.pos, 8), "num_samples", d.trace), LAMBDA n :
        IF ~n.ok THEN n ELSE
      Bind(Field(ReadVec(src, n.pos, n.val[1]), "samples", n.trace), LAMBDA v :
        IF ~v.ok THEN v ELSE
        Ok([begin_time  |-> b.val[1],
            sample_rate |-> r.val[1],
            downsample  |-> d.val[1],
            samples     |-> v.val[1]],
           v.pos, v.trace)))))),
      pos)

\* One variant of enum Data: its magic, then its payload.
ReadVariant(src, pos, variant) ==
    Bind(ReadMagicU32(src, pos, VariantTag(variant)), LAMBDA m :
      IF ~m.ok THEN m ELSE
    Bind(After(m.trace, IF variant = "Digital" THEN ReadDigitalData(src, m.pos)
                        ELSE ReadAnalogData(src, m.pos)), LAMBDA p :
      IF ~p.ok THEN p
      ELSE Ok([variant |-> variant, payload |-> p.val[1]], p.pos, p.trace)))

\* Slip: Analog declared (and so tried) first.
VariantsAnalogFirst == <<"Analog", "Digital">>

\* The order in which the derived reader of enum Data tries the variants.
Variants == <<"Digital", "Analog">>

\* #[binrw] enum Data: each variant in declaration order from the same
\* position; after a variant fails, seek back and try the next; when all
\* fail, Error::EnumErrors with every variant's error.
RECURSIVE TryVariants(_, _, _, _, _)
TryVariants(src, pos, names, errors, before) ==
    IF names = <<>> THEN Fail(EnumErrors(pos, errors), pos, before)
    ELSE Bind(After(before, ReadVariant(src, pos, Head(names))), LAMBDA v :
           IF v.ok THEN v
           ELSE TryVariants(src, pos, Tail(names),
                            Append(errors, [name |-> Head(names), error |-> v.err[1]]),
                            Append(v.trace, <<"seek", v.pos, pos>>)))

ReadData(src, pos) == Restore(TryVariants(src, pos, Variants, <<>>, <<>>), pos)

\* Slip: no assertion on the version.
VersionAny(version) == TRUE

\* #[br(assert(version == 0))]
VersionOk(version) == version = Zeros(4)

\* #[binrw] #[brw(little, magic = b"<SALEAE>")] struct SaleaeExport
ReadSaleaeExport(src, pos) ==
    Restore(
      Bind(ReadMagicBytes(src, pos, Magic), LAMBDA m :
        IF ~m.ok THEN m ELSE
      Bind(Field(ReadLE(src, m.pos, 4), "version", m.trace), LAMBDA v :
        IF ~v.ok THEN v ELSE
        IF ~VersionOk(v.val[1]) THEN Fail(AssertFail(m.pos), v.pos, v.trace) ELSE
      Bind(Field(ReadData(src, v.pos), "file_data", v.trace), LAMBDA d :
        IF ~d.ok THEN d ELSE
        Ok([version |-> v.val[1], file_data |-> d.val[1]], d.pos, d.trace)))),
      pos)

\* The map_err of read and write_to: binrw::Error::Io(e) is returned as e;
\* any other error becomes io::Error::new(ErrorKind::Other, err).
MapErr(err) ==
    IF IsIo(err) THEN [kind |-> err.io, inner |-> <<>>]
    ELSE [kind |-> "Other", inner |-> <<err>>]

\* SaleaeExport::read(reader): the reader it was given, Ok(export) or
\* Err(io::Error), and the cursor movements made on the reader.
ReadResult(src) ==
    Bind(ReadSaleaeExport(src, 0), LAMBDA r :
      [source |-> src,
       ok     |-> r.ok,
       value  |-> r.val,
       error  |-> IF r.ok THEN <<>> ELSE <<MapErr(r.err[1])>>,
       pos    |-> r.pos,
       trace  |-> r.trace])

\* SaleaeExport::write_to(&self, writer) on an empty sink (which never
\* fails): self, the bytes written and the write calls made.
WriteResult(export) ==
    Bind(WriteSaleaeExport(EmptySink, export), LAMBDA sink :
      [self |-> export, bytes |-> sink.bytes, pos |-> sink.pos,
       trace |-> sink.trace])

(* ------------------------ projections, iterator ----------------------- *)

\* assume_digital(self): the payload, or a panic.
AssumeDigitalResult(export) ==
    IF export.file_data.variant = "Digital"
      THEN [panicked |-> FALSE, out |-> <<export.file_data.payload>>]
      ELSE [panicked |-> TRUE, out |-> <<>>]

\* Slip: the payload handed out whatever its kind.
AssumeAnalogAny(export) ==
    [panicked |-> FALSE, out |-> <<export.file_data.payload>>]

\* assume_analog(self): the payload, or a panic.
AssumeAnalogResult(export) ==
    IF export.file_data.variant = "Analog"
      THEN [panicked |-> FALSE, out |-> <<export.file_data.payload>>]
      ELSE [panicked |-> TRUE, out |-> <<>>]

\* impl From<State> for bool
StateAsBool(state) == state = "High"

\* DigitalData::iter_samples
NewSampleIter(d) ==
    [samples |-> d.transition_times, current |-> 0,
     initial |-> StateAsBool(d.initial_state)]

\* Slip: the transition time itself, the last one not subtracted.
SampleIterNextAbsolute(it) ==
    IF it.current >= Len(it.samples)
      THEN [item |-> <<>>, it |-> it]
      ELSE [item |-> << <<it.initial # ((it.current % 2) # 0),
                          it.samples[it.current + 1]>> >>,
            it   |-> [it EXCEPT !.current = @ + 1]]

\* SampleIter::next: the item (<<>> for None) and the iterator afterwards.
SampleIterNext(it) ==
    IF it.current >= Len(it.samples)
      THEN [item |-> <<>>, it |-> it]
      ELSE LET is_high == (it.initial # ((it.current % 2) # 0))
               last    == IF it.current >= 1 THEN it.samples[it.current]
                          ELSE F64Of(0)
               time    == F64Sub(it.samples[it.current + 1], last)
           IN  [item |-> << <<is_high, time>> >>,
                it   |-> [it EXCEPT !.current = @ + 1]]

(* ------------------------------- inputs ------------------------------- *)

Floats == {F64Of(n) : n \in 0..MaxHalf}

FloatSeqs == UNION {[1..k -> Floats] : k \in 0..MaxLen}

BoundTimes == {F64Of(0), F64Of(MaxHalf)}

Rates == {NatWord(1, 8), NatWord(1000, 8)}

Versions == {NatWord(0, 4), NatWord(1, 4)}

DigitalDatas ==
    [initial_state : {"Low", "High"}, begin_time : BoundTimes,
     end_time : BoundTimes, transition_times : FloatSeqs]

AnalogDatas ==
    [begin_time : BoundTimes, sample_rate : Rates, downsample : Rates,
     samples : FloatSeqs]

Datas ==
    {[variant |-> "Digital", payload |-> d] : d \in DigitalDatas}
      \cup {[variant |-> "Analog", payload |-> a] : a \in AnalogDatas}

\* The exports a caller constructs in memory.
Exports == [version : Versions, file_data : Datas]

SeqOf(e) ==
    IF e.file_data.variant = "Digital" THEN e.file_data.payload.transition_times
    ELSE e.file_data.payload.samples

\* The exports whose encodings the byte inputs are derived from: version 0,
\* begin_time 0, end_time MaxHalf / 2, sample_rate 1000, downsample 1,
\* elements among two values.
BaseExports ==
    {e \in Exports :
        /\ e.version = NatWord(0, 4)
        /\ e.file_data.payload.begin_time = F64Of(0)
        /\ e.file_data.variant = "Digital" =>
              e.file_data.payload.end_time = F64Of(MaxHalf)
        /\ e.file_data.variant = "Analog" =>
              /\ e.file_data.payload.sample_rate = NatWord(1000, 8)
              /\ e.file_data.payload.downsample = NatWord(1, 8)
        /\ \A i \in 1..Len(SeqOf(e)) : SeqOf(e)[i] \in {F64Of(1), F64Of(MaxHalf)}}

\* Length of an encoding up to the first sequence element.
FixedLen(variant) == IF variant = "Digital" THEN 44 ELSE 48

EditBytes == {0, 1, 2}

\* Byte inputs: the encodings of the base exports, every prefix of them,
\* and every edit of one byte before the sequence elements.
ByteInputs ==
    UNION { LET b == WriteResult(e).bytes
            IN  {SubSeq(b, 1, n) : n \in 0..Len(b)}
                  \cup {[b EXCEPT ![i] = v] :
                          i \in 1..FixedLen(e.file_data.variant), v \in EditBytes}
          : e \in BaseExports }

\* Readers over a device that may fail: encodings of the base exports with
\* at most one element, failing at some offset (at Len(b): never reached).
FaultySources ==
    UNION { LET b == WriteResult(e).bytes
            IN  {[bytes |-> b, failAt |-> <<k>>] : k \in 0..Len(b)}
          : e \in {x \in BaseExports : Len(SeqOf(x)) <= 1} }

(* ---------------------------- state machine --------------------------- *)

VARIABLES
    input,     \* what the run began with: [export, source], each <<>> or <<x>>
    export,    \* the SaleaeExport held by the caller, <<>> or <<e>>
    stream,    \* the byte source / sink contents, <<>> or <<[bytes, failAt]>>
    rres,      \* the result of the last read, <<>> or <<ReadResult>>
    wres,      \* the result of the last write_to, <<>> or <<WriteResult>>
    proj,      \* the last projection, <<>> or <<[op, self, panicked, out]>>
    iter,      \* the SampleIter, <<>> or <<[samples, current, initial]>>
    yielded,   \* the items the iterator has returned since iter_samples
    ended      \* whether next has returned None

vars == <<input, export, stream, rres, wres, proj, iter, yielded, ended>>

InitCommon ==
    /\ rres = <<>> /\ wres = <<>> /\ proj = <<>>
    /\ iter = <<>> /\ yielded = <<>> /\ ended = FALSE

Init ==
    /\ InitCommon
    /\ \/ \E e \in Exports :
            /\ input = [export |-> <<e>>, source |-> <<>>]
            /\ export = <<e>>
            /\ stream = <<>>
       \/ \E b \in ByteInputs :
            /\ input = [export |-> <<>>, source |-> <<[bytes |-> b, failAt |-> <<>>]>>]
            /\ export = <<>>
            /\ stream = <<[bytes |-> b, failAt |-> <<>>]>>
       \/ \E s \in FaultySources :
            /\ input = [export |-> <<>>, source |-> <<s>>]
            /\ export = <<>>
            /\ stream = <<s>>

\* A panic unwinds the caller: nothing runs after it.
Panicked == proj # <<>> /\ proj[1].panicked

\* SaleaeExport::read(reader) over a reader whose device may fail (a
\* reader over a buffer is read_from_bytes).
Read ==
    /\ ~Panicked
    /\ stream # <<>>
    /\ stream[1].failAt # <<>>
    /\ \E r \in {ReadResult(stream[1])} :
           /\ rres' = <<r>>
           /\ export' = IF r.ok THEN r.value ELSE export
    /\ UNCHANGED <<input, stream, wres, proj, iter, yielded, ended>>

\* SaleaeExport::read_from_bytes(bytes): read over a Cursor, which never fails.
ReadFromBytes ==
    /\ ~Panicked
    /\ stream # <<>>
    /\ stream[1].failAt = <<>>
    /\ \E r \in {ReadResult([bytes |-> stream[1].bytes, failAt |-> <<>>])} :
           /\ rres' = <<r>>
           /\ export' = IF r.ok THEN r.value ELSE export
    /\ UNCHANGED <<input, stream, wres, proj, iter, yielded, ended>>

\* SaleaeExport::write_to(&self, writer) into an empty in-memory sink.
WriteTo ==
    /\ ~Panicked
    /\ export # <<>>
    /\ \E w \in {WriteResult(export[1])} :
           /\ wres' = <<w>>
           /\ stream' = <<[bytes |-> w.bytes, failAt |-> <<>>]>>
    /\ UNCHANGED <<input, export, rres, proj, iter, yielded, ended>>

\* SaleaeExport::assume_digital(self): consumes the export.
AssumeDigital ==
    /\ ~Panicked
    /\ export # <<>>
    /\ LET p == AssumeDigitalResult(export[1])
       IN  proj' = <<[op |-> "assume_digital", self |-> export[1],
                      panicked |-> p.panicked, out |-> p.out]>>
    /\ export' = <<>>
    /\ iter' = <<>> /\ yielded' = <<>> /\ ended' = FALSE
    /\ UNCHANGED <<input, stream, rres, wres>>

\* SaleaeExport::assume_analog(self): consumes the export.
AssumeAnalog ==
    /\ ~Panicked
    /\ export # <<>>
    /\ LET p == AssumeAnalogResult(export[1])
       IN  proj' = <<[op |-> "assume_analog", self |-> export[1],
                      panicked |-> p.panicked, out |-> p.out]>>
    /\ export' = <<>>
    /\ iter' = <<>> /\ yielded' = <<>> /\ ended' = FALSE
    /\ UNCHANGED <<input, stream, rres, wres>>

\* DigitalData::iter_samples(&self) on the projected payload.
IterSamples ==
    /\ ~Panicked
    /\ proj # <<>>
    /\ proj[1].op = "assume_digital"
    /\ iter' = <<NewSampleIter(proj[1].out[1])>>
    /\ yielded' = <<>>
    /\ ended' = FALSE
    /\ UNCHANGED <<input, export, stream, rres, wres, proj>>

\* SampleIter::next(&mut self)
IterNext ==
    /\ iter # <<>>
    /\ \E n \in {SampleIterNext(iter[1])} :
           /\ iter' = <<n.it>>
           /\ yielded' = yielded \o n.item
           /\ ended' = (n.item = <<>>)
    /\ UNCHANGED <<input, export, stream, rres, wres, proj>>

Next ==
    \/ Read
    \/ ReadFromBytes
    \/ WriteTo
    \/ AssumeDigital
    \/ AssumeAnalog
    \/ IterSamples
    \/ IterNext

Spec == Init /\ [][Next]_vars

(* ======================================================================= *)
(* Properties                                                              *)
(* ======================================================================= *)

\* The bytes of the source of the last read, and fields of them.
SrcBytes == rres[1].source.bytes

HasBytes(bytes, n) == Len(bytes) >= n

MagicField(bytes) == SubSeq(bytes, 1, 8)

VersionField(bytes) == SubSeq(bytes, 9, 12)

TagField(bytes) == SubSeq(bytes, 13, 16)

LevelField(bytes) == SubSeq(bytes, 17, 20)

\* The 8-byte count field that ends the fixed part of a payload.
CountField(bytes, variant) ==
    SubSeq(bytes, FixedLen(variant) - 7, FixedLen(variant))

\* A little-endian field holds the number n < 2^16.
HoldsLE(field, n) ==
    /\ field[1] = n % 256
    /\ field[2] = n \div 256
    /\ \A i \in 3..Len(field) : field[i] = 0

\* The last read was of a source whose device did not fail.
ReadOfSound == rres # <<>> /\ rres[1].source.failAt = <<>>

\* The last read failed with io::ErrorKind::Other around a binrw error of
\* the given kind, and returned no export.
FailedWith(kind) ==
    /\ ~rres[1].ok
    /\ rres[1].value = <<>>
    /\ rres[1].error[1].kind = "Other"
    /\ rres[1].error[1].inner # <<>>
    /\ rres[1].error[1].inner[1].kind = kind

(* ----------------------------------------------------------------------- *)

\* C1 as stated: for any constructed export, arbitrary version included,
\* write_to followed by read of the written bytes succeeds and yields an
\* export equal to the original.
C1_RoundTripAnyVersion ==
    (input.export # <<>> /\ rres # <<>>) =>
        /\ rres[1].ok
        /\ rres[1].value = input.export

\* C1 amended: for any constructed export whose version is 0, write_to
\* followed by read of the written bytes succeeds and yields an export
\* equal to the original field for field (floats by bit pattern).
C1_RoundTripVersion0 ==
    (input.export # <<>> /\ rres # <<>> /\ input.export[1].version = NatWord(0, 4)) =>
        /\ rres[1].ok
        /\ rres[1].value = input.export
        /\ rres[1].source.bytes = wres[1].bytes

C1_Witness ==
    /\ input.export # <<>>
    /\ rres # <<>>
    /\ rres[1].ok
    /\ input.export[1].file_data.variant = "Digital"
    /\ input.export[1].file_data.payload.initial_state = "High"
    /\ Len(input.export[1].file_data.payload.transition_times) >= 2
    /\ input.export[1].file_data.payload.begin_time
          # input.export[1].file_data.payload.end_time

(* ----------------------------------------------------------------------- *)

\* C2 as stated: for every byte stream that decodes successfully, encoding
\* the decoded export reproduces the stream byte for byte.
C2_BytesRoundTripExact ==
    (input.source # <<>> /\ wres # <<>>) =>
        wres[1].bytes = input.source[1].bytes

\* The record a stream holds: its bytes up to the end of the last counted
\* element, with a non-zero Digital level field written as 1.
RecordOf(bytes, e) ==
    LET len == FixedLen(e.file_data.variant) + 8 * Len(SeqOf(e))
    IN  [i \in 1..len |->
           IF /\ e.file_data.variant = "Digital"
              /\ i \in 17..20
              /\ LevelField(bytes) # <<0, 0, 0, 0>>
             THEN <<1, 0, 0, 0>>[i - 16]
             ELSE bytes[i]]

\* C2 amended: for every byte stream that decodes successfully, encoding
\* the decoded export reproduces the stream's bytes up to the end of the
\* last counted element, except that a non-zero Digital level field is
\* written back as 1; bytes after the last counted element are not written.
C2_BytesRoundTripRecord ==
    (input.source # <<>> /\ wres # <<>>) =>
        /\ Len(wres[1].bytes) <= Len(input.source[1].bytes)
        /\ wres[1].bytes = RecordOf(input.source[1].bytes, wres[1].self)

C2_Witness ==
    /\ input.source # <<>>
    /\ wres # <<>>
    /\ LevelField(input.source[1].bytes) = <<2, 0, 0, 0>>
    /\ wres[1].self.file_data.variant = "Digital"
    /\ Len(wres[1].self.file_data.payload.transition_times) >= 1
    /\ wres[1].bytes # input.source[1].bytes

(* ----------------------------------------------------------------------- *)

\* C3: write_to writes a count field equal to the sequence's length N,
\* immediately followed by exactly N elements; a successful read of a
\* source whose count field holds N yields a sequence of exactly N elements.
C3_CountConsistency ==
    /\ wres # <<>> =>
         LET variant == wres[1].self.file_data.variant
             n       == Len(SeqOf(wres[1].self))
         IN  /\ HoldsLE(CountField(wres[1].bytes, variant), n)
             /\ Len(wres[1].bytes) = FixedLen(variant) + 8 * n
    /\ (rres # <<>> /\ rres[1].ok) =>
         LET e == rres[1].value[1]
         IN  HoldsLE(CountField(SrcBytes, e.file_data.variant), Len(SeqOf(e)))

\* A read of a source holding more elements than its count field states.
C3_Witness ==
    /\ rres # <<>>
    /\ rres[1].ok
    /\ wres = <<>>
    /\ Len(SeqOf(rres[1].value[1])) = 1
    /\ Len(SrcBytes) = FixedLen(rres[1].value[1].file_data.variant) + 16

(* ----------------------------------------------------------------------- *)

\* C4: a read of a buffer whose first 8 bytes are not "<SALEAE>" fails
\* with the magic-mismatch error whatever follows; a read of a buffer with
\* the magic and a version field other than 0 fails with the version
\* (assertion) error; neither returns an export.
C4_MagicVersionRejection ==
    ReadOfSound =>
        /\ (HasBytes(SrcBytes, 8) /\ MagicField(SrcBytes) # Magic) =>
              /\ FailedWith("BadMagic")
              /\ rres[1].error[1].inner[1].found = MagicField(SrcBytes)
        /\ (HasBytes(SrcBytes, 12) /\ MagicField(SrcBytes) = Magic
               /\ VersionField(SrcBytes) # <<0, 0, 0, 0>>) =>
              FailedWith("AssertFail")

\* A version other than 0 in front of an otherwise well-formed payload.
C4_Witness ==
    /\ ReadOfSound
    /\ input.export # <<>>
    /\ VersionField(SrcBytes) = <<1, 0, 0, 0>>
    /\ Len(SrcBytes) > 48
    /\ FailedWith("AssertFail")

(* ----------------------------------------------------------------------- *)

\* The error of the k-th variant tried, in the EnumErrors of the last read.
VariantError(k) == rres[1].error[1].inner[1].variants[k].error

\* C5: with the magic and version 0, tag 0 selects the Digital payload
\* reader, tag 1 the Analog payload reader, and any other tag fails with an
\* error that reports the tag found.
C5_VariantTag ==
    (ReadOfSound /\ HasBytes(SrcBytes, 16) /\ MagicField(SrcBytes) = Magic
        /\ VersionField(SrcBytes) = <<0, 0, 0, 0>>) =>
      LET tag == TagField(SrcBytes)
      IN  /\ tag = <<0, 0, 0, 0>> =>
                IF rres[1].ok THEN rres[1].value[1].file_data.variant = "Digital"
                ELSE /\ FailedWith("EnumErrors")
                     /\ VariantError(1).kind = "Io"
                     /\ VariantError(1).pos >= 16
          /\ tag = <<1, 0, 0, 0>> =>
                IF rres[1].ok THEN rres[1].value[1].file_data.variant = "Analog"
                ELSE /\ FailedWith("EnumErrors")
                     /\ VariantError(2).kind = "Io"
                     /\ VariantError(2).pos >= 16
          /\ tag \notin {<<0, 0, 0, 0>>, <<1, 0, 0, 0>>} =>
                /\ FailedWith("EnumErrors")
                /\ \A k \in 1..2 :
                      /\ VariantError(k).kind = "BadMagic"
                      /\ VariantError(k).found = Reverse(tag)

C5_Witness ==
    /\ ReadOfSound
    /\ HasBytes(SrcBytes, 48)
    /\ TagField(SrcBytes) = <<2, 0, 0, 0>>
    /\ FailedWith("EnumErrors")
    /\ VariantError(2).found = NatWord(2, 4)

(* ----------------------------------------------------------------------- *)

\* C6: the level field reads as Low when it holds 0 and as High when it
\* holds any other value; the read never fails on account of that value.
C6_LevelLeniency ==
    (ReadOfSound /\ HasBytes(SrcBytes, 20) /\ MagicField(SrcBytes) = Magic
        /\ VersionField(SrcBytes) = <<0, 0, 0, 0>>
        /\ TagField(SrcBytes) = <<0, 0, 0, 0>>) =>
      IF rres[1].ok
        THEN rres[1].value[1].file_data.payload.initial_state =
                (IF LevelField(SrcBytes) = <<0, 0, 0, 0>> THEN "Low" ELSE "High")
        ELSE /\ FailedWith("EnumErrors")
             /\ VariantError(1).kind = "Io"
             /\ VariantError(1).pos >= 20

C6_Witness ==
    /\ ReadOfSound
    /\ rres[1].ok
    /\ rres[1].value[1].file_data.variant = "Digital"
    /\ LevelField(SrcBytes) = <<2, 0, 0, 0>>
    /\ rres[1].value[1].file_data.payload.initial_state = "High"

(* ----------------------------------------------------------------------- *)

\* The payload the iterator was made from.
Iterated == proj[1].out[1]

\* The i-th pair (1-indexed) iter_samples is to yield for payload d:
\* the level, initial_state flipped at every odd 0-index, and in units of
\* 0.5 the time since the previous transition (since 0 for the first).
ExpectedHigh(d, i) ==
    IF (i - 1) % 2 = 1 THEN d.initial_state = "Low" ELSE d.initial_state = "High"

ExpectedHalves(d, i) ==
    F64Half(d.transition_times[i])
      - (IF i = 1 THEN 0 ELSE F64Half(d.transition_times[i - 1]))

\* C7: iter_samples yields one pair per transition time, in order, the
\* i-th being (initial_state XOR i odd, transition_times[i] - previous),
\* then ends; it ends only then; the payload is unchanged; iter_samples
\* starts again from the first pair.
C7_SampleReconstruction ==
    iter # <<>> =>
        /\ Len(yielded) = iter[1].current
        /\ Len(yielded) <= Len(Iterated.transition_times)
        /\ \A i \in 1..Len(yielded) :
              /\ yielded[i][1] = ExpectedHigh(Iterated, i)
              /\ F64Half(yielded[i][2]) = ExpectedHalves(Iterated, i)
        /\ ended => Len(yielded) = Len(Iterated.transition_times)
        /\ (SampleIterNext(iter[1]).item = <<>>)
              <=> (Len(yielded) = Len(Iterated.transition_times))
        /\ iter[1].samples = Iterated.transition_times
        /\ Iterated = proj[1].self.file_data.payload
        /\ NewSampleIter(Iterated).current = 0

\* An iteration that ended after two pairs with differing durations,
\* over a payload that came from a read.
C7_Witness ==
    /\ iter # <<>>
    /\ ended
    /\ Len(yielded) = 2
    /\ yielded[1][1] = TRUE
    /\ yielded[2][1] = FALSE
    /\ F64Half(yielded[1][2]) = 2
    /\ F64Half(yielded[2][2]) = -1
    /\ rres # <<>>

(* ----------------------------------------------------------------------- *)

\* C8: assume_digital returns the payload of a Digital export and panics
\* on an Analog one; assume_analog returns the payload of an Analog export
\* and panics on a Digital one.
C8_VariantProjection ==
    proj # <<>> =>
        LET data    == proj[1].self.file_data
            wanted  == IF proj[1].op = "assume_digital" THEN "Digital" ELSE "Analog"
        IN  IF data.variant = wanted
              THEN ~proj[1].panicked /\ proj[1].out = <<data.payload>>
              ELSE proj[1].panicked /\ proj[1].out = <<>>

C8_Witness ==
    /\ proj # <<>>
    /\ proj[1].op = "assume_analog"
    /\ proj[1].self.file_data.variant = "Digital"
    /\ proj[1].panicked

(* ----------------------------------------------------------------------- *)

\* The source of the last read ends before the elements its count field
\* states: header and fixed part are whole and well-formed.
Truncated ==
    /\ HasBytes(SrcBytes, 16)
    /\ MagicField(SrcBytes) = Magic
    /\ VersionField(SrcBytes) = <<0, 0, 0, 0>>
    /\ \E variant \in {"Digital", "Analog"} :
          /\ TagField(SrcBytes) = Reverse(VariantTag(variant))
          /\ HasBytes(SrcBytes, FixedLen(variant))
          /\ \E n \in 1..(Len(SrcBytes) \div 8) :
                /\ HoldsLE(CountField(SrcBytes, variant), n)
                /\ Len(SrcBytes) < FixedLen(variant) + 8 * n

\* The last read met one of the failures the content of the data causes.
ContentFailure ==
    \/ HasBytes(SrcBytes, 8) /\ MagicField(SrcBytes) # Magic
    \/ HasBytes(SrcBytes, 12) /\ MagicField(SrcBytes) = Magic
          /\ VersionField(SrcBytes) # <<0, 0, 0, 0>>
    \/ HasBytes(SrcBytes, 16) /\ MagicField(SrcBytes) = Magic
          /\ VersionField(SrcBytes) = <<0, 0, 0, 0>>
          /\ TagField(SrcBytes) \notin {<<0, 0, 0, 0>>, <<1, 0, 0, 0>>}
    \/ Truncated

\* The error comes from a failure of the device: it is, or holds, the
\* device's I/O error.
FromDevice(error) ==
    \/ error.kind = "Fault"
    \/ /\ error.inner # <<>>
       /\ \/ error.inner[1].io = "Fault"
          \/ \E k \in 1..Len(error.inner[1].variants) :
                error.inner[1].variants[k].error.io = "Fault"

NeverBackward(trace) == \A i \in 1..Len(trace) : trace[i][3] >= trace[i][2]

\* No byte is transferred twice: every read or write starts at or after
\* the end of every earlier one.
NeverTwice(trace, op) ==
    \A i, j \in 1..Len(trace) :
        (i < j /\ trace[i][1] = op /\ trace[j][1] = op) => trace[j][2] >= trace[i][3]

\* C10 as stated: in every read, successful or failing, the cursor never
\* moves backward and no byte is read twice; in every write_to the cursor
\* never moves backward and no byte is written twice.
C10_ForwardOnlyAlways ==
    /\ rres # <<>> =>
          NeverBackward(rres[1].trace) /\ NeverTwice(rres[1].trace, "read")
    /\ wres # <<>> =>
          NeverBackward(wres[1].trace) /\ NeverTwice(wres[1].trace, "write")

\* C10 amended: in every successful read of a Digital export the cursor
\* never moves backward and no byte is read twice; in every write_to the
\* cursor never moves backward and no byte is written twice.
C10_ForwardOnlyDigital ==
    /\ (rres # <<>> /\ rres[1].ok
          /\ rres[1].value[1].file_data.variant = "Digital") =>
          /\ NeverBackward(rres[1].trace)
          /\ NeverTwice(rres[1].trace, "read")
          /\ rres[1].pos = FixedLen("Digital")
                + 8 * Len(SeqOf(rres[1].value[1]))
    /\ wres # <<>> =>
          /\ NeverBackward(wres[1].trace)
          /\ NeverTwice(wres[1].trace, "write")
          /\ wres[1].pos = Len(wres[1].bytes)

C10_Witness ==
    /\ rres # <<>>
    /\ rres[1].ok
    /\ rres[1].value[1].file_data.variant = "Digital"
    /\ Len(SeqOf(rres[1].value[1])) >= 2
    /\ wres # <<>>
    /\ Len(rres[1].trace) >= 15

====
